---- MODULE Spec2Model ----
(***************************************************************************)
(* The invite-attribution core of the invite tracker bot:                  *)
(*   src/invite_tracker.py  InviteTracker  (cache + attribution handlers)  *)
(*   src/database.py        InviteDatabase (the sqlite store)              *)
(*   src/bot.py             the event wiring and the !refresh command      *)
(*                                                                         *)
(* Handlers are coroutines on one event loop.  The store methods are       *)
(* "async def" but contain no await, so a handler only yields the loop at  *)
(* "await guild.invites()".  One action of the model is therefore one      *)
(* handler segment: from an event (or from the resumption after a fetch)   *)
(* up to the next fetch or the handler's end.                              *)
(***************************************************************************)
EXTENDS Integers, Sequences, FiniteSets, Bags, TLC

\* ------------------------------------------------------------------ bounds
\* events of the environment in one behaviour: an invite created or revoked, a
\* join, a refresh, a permission change, a midnight, a failed fetch, a store
\* call that raises
MaxEvents == 4
\* calls of store methods in one behaviour of the store on its own
MaxCalls == 1

\* ------------------------------------------------------------- input space
Guilds == {"g1", "g2"}
Users == {1, 2}
\* "invite.inviter.id if invite.inviter else 0": a missing inviter is 0
NoInviter == 0
Codes == {"X", "Y"}
\* the order in which the platform lists a guild's invites
CodeOrder == <<"X", "Y">>
GuildOf(code) == "g1"
\* The <<inviter, max_uses>> an invite of each code may be created with.
\* max_uses 0 is the platform's "unlimited", 1 a single-use invite.
InviteChoices(code) ==
    IF code = "X" THEN {<<1, 0>>, <<NoInviter, 0>>, <<NoInviter, 1>>}
    ELSE {<<1, 0>>, <<2, 0>>, <<2, 1>>}

\* ---------------------------------------------------------------- helpers
Put(f, k, v) == [x \in (DOMAIN f) \cup {k} |-> IF x = k THEN v ELSE f[x]]

RECURSIVE SumOver(_, _)
SumOver(f, S) ==
    IF S = {} THEN 0
    ELSE LET x == CHOOSE y \in S : TRUE
         IN f[x] + SumOver(f, S \ {x})

\* An ordered dict {code: Invite} (a Python dict keeps insertion order) is a
\* sequence of Invite records with pairwise different codes.
OdCodes(od) == {od[i].code : i \in 1..Len(od)}
OdIndex(od, code) == CHOOSE i \in 1..Len(od) : od[i].code = code
OdGet(od, code) == od[OdIndex(od, code)]
\* d[code] = inv: an existing key keeps its place, a new key goes last
OdSet(od, inv) ==
    IF inv.code \in OdCodes(od)
    THEN [od EXCEPT ![OdIndex(od, inv.code)] = inv]
    ELSE Append(od, inv)
\* del d[code]
OdDel(od, code) ==
    LET i == OdIndex(od, code)
    IN SubSeq(od, 1, i - 1) \o SubSeq(od, i + 1, Len(od))

\* ------------------------------------------------- store faults (sqlite3.Error)
\* A call site of a store method inside one handler segment.  stmt is the
\* statement of the method that raises (1 for the single-statement methods).
Site(op, code, user, stmt) == [op |-> op, code |-> code, user |-> user, stmt |-> stmt]
AllSites ==
    {Site("add_invite", c, 0, 1) : c \in Codes}
    \cup {Site("update_invite_usage", c, 0, 1) : c \in Codes}
    \cup {Site("remove_invite", c, 0, 1) : c \in Codes}
    \cup {Site("record_invite_use", "", u, s) : u \in Users, s \in 1..4}
    \cup {Site("update_invite_count", "", u, s) : u \in Users, s \in 1..2}
\* the first statement of the call that raises, 0 when the call commits
FailAt(F, op, code, user, n) ==
    LET S == {s \in 1..n : Site(op, code, user, s) \in F}
    IN IF S = {} THEN 0 ELSE CHOOSE s \in S : \A t \in S : s <= t

\* ------------------------------------------------------------------ store
\* db is the sqlite file: the three tables of init_database, each a function
\* from the primary keys present to the row.
EmptyDb == [invites |-> <<>>, invite_stats |-> <<>>, daily_stats |-> <<>>]

\* add_invite with INSERT OR IGNORE: an existing row stays as it is
add_invite_ignore(d, invite_code, guild_id, inviter_id, max_uses, failAt) ==
    IF failAt # 0 \/ invite_code \in DOMAIN d.invites THEN d
    ELSE [d EXCEPT !.invites = Put(@, invite_code,
              [guild_id |-> guild_id, inviter_id |-> inviter_id, uses |-> 0,
               max_uses |-> max_uses, is_active |-> TRUE])]

\* INSERT OR REPLACE: a new row; uses and is_active take the column defaults
add_invite(d, invite_code, guild_id, inviter_id, max_uses, failAt) ==
    IF failAt # 0 THEN d
    ELSE [d EXCEPT !.invites = Put(@, invite_code,
              [guild_id |-> guild_id, inviter_id |-> inviter_id, uses |-> 0,
               max_uses |-> max_uses, is_active |-> TRUE])]

update_invite_usage(d, invite_code, new_uses, failAt) ==
    IF failAt # 0 \/ invite_code \notin DOMAIN d.invites THEN d
    ELSE [d EXCEPT !.invites[invite_code].uses = new_uses]

\* remove_invite with SET is_active = NOT is_active
remove_invite_toggle(d, invite_code, failAt) ==
    IF failAt # 0 \/ invite_code \notin DOMAIN d.invites THEN d
    ELSE [d EXCEPT !.invites[invite_code].is_active = ~@]

remove_invite(d, invite_code, failAt) ==
    IF failAt # 0 \/ invite_code \notin DOMAIN d.invites THEN d
    ELSE [d EXCEPT !.invites[invite_code].is_active = FALSE]

\* the store after the first n statements of record_invite_use
RecordStmts(d, guild_id, inviter_id, day, n) ==
    LET k == <<inviter_id, guild_id>>
        kd == <<inviter_id, guild_id, day>>
        s1 == IF n >= 1 /\ k \notin DOMAIN d.invite_stats
              THEN [d EXCEPT !.invite_stats = Put(@, k, [total_invites |-> 0, total_uses |-> 0])]
              ELSE d
        s2 == IF n >= 2
              THEN [s1 EXCEPT !.invite_stats[k].total_uses = @ + 1]
              ELSE s1
        s3 == IF n >= 3 /\ kd \notin DOMAIN s2.daily_stats
              THEN [s2 EXCEPT !.daily_stats = Put(@, kd, 0)]
              ELSE s2
        s4 == IF n >= 4
              THEN [s3 EXCEPT !.daily_stats[kd] = @ + 1]
              ELSE s3
    IN s4

\* record_invite_use with the counter written from the insert's default
\* instead of incremented in place
record_invite_use_overwrite(d, guild_id, inviter_id, day, failAt) ==
    IF failAt # 0 THEN d
    ELSE [RecordStmts(d, guild_id, inviter_id, day, 4)
             EXCEPT !.invite_stats[<<inviter_id, guild_id>>].total_uses = 1,
                    !.daily_stats[<<inviter_id, guild_id, day>>] = 1]

\* record_invite_use without the transaction: the statements run in
\* autocommit, nothing is rolled back
record_invite_use_norollback(d, guild_id, inviter_id, day, failAt) ==
    IF failAt = 0 THEN RecordStmts(d, guild_id, inviter_id, day, 4)
    ELSE RecordStmts(d, guild_id, inviter_id, day, failAt - 1)

\* one transaction: "with sqlite3.connect(...) as conn" commits at the end and
\* rolls back when a statement raises
record_invite_use(d, guild_id, inviter_id, day, failAt) ==
    IF failAt = 0 THEN RecordStmts(d, guild_id, inviter_id, day, 4)
    ELSE d

\* update_invite_count with "WHERE user_id = ?": the guild is left out of the
\* UPDATE
update_invite_count_any_guild(d, guild_id, user_id, invite_count, failAt) ==
    LET k == <<user_id, guild_id>>
        s1 == IF k \notin DOMAIN d.invite_stats
              THEN [d EXCEPT !.invite_stats = Put(@, k, [total_invites |-> 0, total_uses |-> 0])]
              ELSE d
    IN IF failAt # 0 THEN d
       ELSE [s1 EXCEPT !.invite_stats =
                [q \in DOMAIN @ |-> IF q[1] = user_id
                                    THEN [@[q] EXCEPT !.total_invites = invite_count]
                                    ELSE @[q]]]

update_invite_count(d, guild_id, user_id, invite_count, failAt) ==
    LET k == <<user_id, guild_id>>
        s1 == IF k \notin DOMAIN d.invite_stats
              THEN [d EXCEPT !.invite_stats = Put(@, k, [total_invites |-> 0, total_uses |-> 0])]
              ELSE d
    IN IF failAt # 0 THEN d
       ELSE [s1 EXCEPT !.invite_stats[k].total_invites = invite_count]

\* a store left by an earlier run of the bot: user 1 was credited once on day 0
SeededDb ==
    [invites |-> <<>>,
     invite_stats |-> Put(<<>>, <<1, "g1">>, [total_invites |-> 1, total_uses |-> 1]),
     daily_stats |-> Put(<<>>, <<1, "g1", 0>>, 1)]
InitStores == {EmptyDb, SeededDb}

\* get_user_stats with "return result": None for a missing row
get_user_stats_none(d, guild_id, user_id, failAt) ==
    IF failAt # 0 THEN <<0, 0>>
    ELSE IF <<user_id, guild_id>> \in DOMAIN d.invite_stats
    THEN <<d.invite_stats[<<user_id, guild_id>>].total_invites,
           d.invite_stats[<<user_id, guild_id>>].total_uses>>
    ELSE <<>>

\* a failed read returns (0, 0), as does a missing row (lines 188-192)
get_user_stats(d, guild_id, user_id, failAt) ==
    IF failAt = 0 /\ <<user_id, guild_id>> \in DOMAIN d.invite_stats
    THEN <<d.invite_stats[<<user_id, guild_id>>].total_invites,
           d.invite_stats[<<user_id, guild_id>>].total_uses>>
    ELSE <<0, 0>>

\* a > b for two tuples of numbers of one length, first column first
RECURSIVE TupleGT(_, _)
TupleGT(a, b) ==
    IF a = <<>> THEN FALSE
    ELSE IF Head(a) # Head(b) THEN Head(a) > Head(b)
    ELSE TupleGT(Tail(a), Tail(b))
\* ORDER BY ... DESC: every order of the rows R in which the columns key[r]
\* never grow; rows that tie come in either order
RECURSIVE OrderByDesc(_, _)
OrderByDesc(R, key) ==
    IF R = {} THEN {<<>>}
    ELSE UNION {{<<r>> \o s : s \in OrderByDesc(R \ {r}, key)} :
                   r \in {x \in R : \A y \in R : ~TupleGT(key[y], key[x])}}
\* LIMIT n
Limit(s, n) == SubSeq(s, 1, IF n < Len(s) THEN n ELSE Len(s))

\* get_leaderboard with ORDER BY total_invites DESC, total_uses DESC
get_leaderboard_by_invites(d, guild_id, limit, failAt) ==
    IF failAt # 0 THEN {<<>>}
    ELSE LET R == {<<k[1], d.invite_stats[k].total_invites, d.invite_stats[k].total_uses>> :
                      k \in {x \in DOMAIN d.invite_stats : x[2] = guild_id}}
         IN {Limit(s, limit) : s \in OrderByDesc(R, [r \in R |-> <<r[2], r[3]>>])}

\* The results a call of get_leaderboard may return: rows
\* <<user_id, total_invites, total_uses>>, [] when the read fails.
get_leaderboard(d, guild_id, limit, failAt) ==
    IF failAt # 0 THEN {<<>>}
    ELSE LET R == {<<k[1], d.invite_stats[k].total_invites, d.invite_stats[k].total_uses>> :
                      k \in {x \in DOMAIN d.invite_stats : x[2] = guild_id}}
         IN {Limit(s, limit) : s \in OrderByDesc(R, [r \in R |-> <<r[3], r[2]>>])}

\* strftime("%Y-%m-%d") of day n, as the digits the store compares as text;
\* the months of this calendar have DaysPerMonth days
DaysPerMonth == 30
DateStr(n) ==
    LET m == (n \div DaysPerMonth) + 1
        dd == (n % DaysPerMonth) + 1
    IN <<m \div 10, m % 10, dd \div 10, dd % 10>>
\* a >= b for two texts of one length
RECURSIVE TextGE(_, _)
TextGE(a, b) ==
    IF a = <<>> THEN TRUE
    ELSE IF Head(a) # Head(b) THEN Head(a) > Head(b)
    ELSE TextGE(Tail(a), Tail(b))

\* get_daily_leaderboard with date > cutoff
get_daily_leaderboard_exclusive(d, guild_id, days, limit, now, failAt) ==
    IF failAt # 0 THEN {<<>>}
    ELSE LET cutoff_date == DateStr(now - days)
             W == {k \in DOMAIN d.daily_stats :
                      k[2] = guild_id /\ DateStr(k[3]) # cutoff_date
                      /\ TextGE(DateStr(k[3]), cutoff_date)}
             R == {<<u, SumOver(d.daily_stats, {k \in W : k[1] = u})>> : u \in {k[1] : k \in W}}
         IN {Limit(s, limit) : s \in OrderByDesc(R, [r \in R |-> <<r[2]>>])}

\* The results a call of get_daily_leaderboard may return on day now: rows
\* <<user_id, recent_uses>>.
get_daily_leaderboard(d, guild_id, days, limit, now, failAt) ==
    IF failAt # 0 THEN {<<>>}
    ELSE LET cutoff_date == DateStr(now - days)
             W == {k \in DOMAIN d.daily_stats :
                      k[2] = guild_id /\ TextGE(DateStr(k[3]), cutoff_date)}
             R == {<<u, SumOver(d.daily_stats, {k \in W : k[1] = u})>> : u \in {k[1] : k \in W}}
         IN {Limit(s, limit) : s \in OrderByDesc(R, [r \in R |-> <<r[2]>>])}

\* ---------------------------------------------------------------- tracker
\* cache_invites, lines 25-39: every fetched invite goes to the store
RECURSIVE StoreInvites(_, _, _, _)
StoreInvites(d, invites, i, F) ==
    IF i > Len(invites) THEN d
    ELSE LET inv == invites[i]
             d1 == add_invite(d, inv.code, inv.guild, inv.inviter, inv.max_uses,
                              FailAt(F, "add_invite", inv.code, 0, 1))
             d2 == update_invite_usage(d1, inv.code, inv.uses,
                              FailAt(F, "update_invite_usage", inv.code, 0, 1))
         IN StoreInvites(d2, invites, i + 1, F)

\* cache_invites without the reset of line 23: the fetched invites are put
\* into the dict the guild already has
RECURSIVE MergeInto(_, _, _)
MergeInto(od, invites, i) ==
    IF i > Len(invites) THEN od ELSE MergeInto(OdSet(od, invites[i]), invites, i + 1)
CacheInvitesBody_merge(cache, d, g, invites, F) ==
    [cache |-> Put(cache, g, MergeInto(IF g \in DOMAIN cache THEN cache[g] ELSE <<>>, invites, 1)),
     db |-> StoreInvites(d, invites, 1, F)]

\* cache_invites after a successful fetch, lines 23-41: the guild's dict is
\* rebuilt in the order of the fetched list
CacheInvitesBody(cache, d, g, invites, F) ==
    [cache |-> Put(cache, g, invites), db |-> StoreInvites(d, invites, 1, F)]

\* update_invite_counts, lines 55-58: cached invites per inviter; an inviter
\* with no cached invite gets no entry
InviteCounts(od) ==
    [u \in {od[i].inviter : i \in {j \in 1..Len(od) : od[j].inviter # NoInviter}}
        |-> Cardinality({i \in 1..Len(od) : od[i].inviter = u})]

RECURSIVE StoreCounts(_, _, _, _, _)
StoreCounts(d, g, counts, todo, F) ==
    IF todo = {} THEN d
    ELSE LET u == CHOOSE x \in todo : TRUE
         IN StoreCounts(update_invite_count(d, g, u, counts[u],
                            FailAt(F, "update_invite_count", "", u, 2)),
                        g, counts, todo \ {u}, F)

\* update_invite_counts on a cached guild, lines 55-62
UpdateCountsBody(cache, d, g, F) ==
    LET counts == InviteCounts(cache[g])
    IN StoreCounts(d, g, counts, DOMAIN counts, F)

\* on_invite_create, lines 70-87 (the guild is cached from line 72 on, so
\* update_invite_counts never fetches here)
on_invite_create(cache, d, invite, F) ==
    LET g == invite.guild
        c1 == IF g \notin DOMAIN cache THEN Put(cache, g, <<>>) ELSE cache
        c2 == [c1 EXCEPT ![g] = OdSet(@, invite)]
        d1 == add_invite(d, invite.code, g, invite.inviter, invite.max_uses,
                         FailAt(F, "add_invite", invite.code, 0, 1))
    IN [cache |-> c2, db |-> UpdateCountsBody(c2, d1, g, F)]

\* on_invite_delete emptying the guild's dict instead of deleting one code
on_invite_delete_clear(cache, d, invite, F) ==
    LET g == invite.guild
        c1 == IF g \in DOMAIN cache THEN [cache EXCEPT ![g] = <<>>] ELSE cache
        d1 == remove_invite(d, invite.code, FailAt(F, "remove_invite", invite.code, 0, 1))
    IN IF g \in DOMAIN c1
       THEN [cache |-> c1, db |-> UpdateCountsBody(c1, d1, g, F), fetch |-> FALSE]
       ELSE [cache |-> c1, db |-> d1, fetch |-> TRUE]

\* on_invite_delete, lines 97-105; fetch tells that update_invite_counts found
\* the guild uncached and called cache_invites
on_invite_delete(cache, d, invite, F) ==
    LET g == invite.guild
        c1 == IF g \in DOMAIN cache /\ invite.code \in OdCodes(cache[g])
              THEN [cache EXCEPT ![g] = OdDel(@, invite.code)]
              ELSE cache
        d1 == remove_invite(d, invite.code, FailAt(F, "remove_invite", invite.code, 0, 1))
    IN IF g \in DOMAIN c1
       THEN [cache |-> c1, db |-> UpdateCountsBody(c1, d1, g, F), fetch |-> FALSE]
       ELSE [cache |-> c1, db |-> d1, fetch |-> TRUE]

\* the comparison of line 132 with >= for >
Matches_ge(old, current_invites) ==
    IF old.code \in OdCodes(current_invites)
    THEN OdGet(current_invites, old.code).uses >= old.uses
    ELSE old.max_uses = 1

\* on_member_join, lines 128-132 and 144-146: does the cached invite old count
\* as the one used, given the fresh list
Matches(old, current_invites) ==
    IF old.code \in OdCodes(current_invites)
    THEN OdGet(current_invites, old.code).uses > old.uses
    ELSE old.max_uses = 1

\* the scan of line 127 without the breaks: the last match stands
FirstMatch_last(od, current_invites) ==
    LET M == {i \in 1..Len(od) : Matches(od[i], current_invites)}
    IN IF M = {} THEN 0 ELSE CHOOSE i \in M : \A j \in M : i >= j

\* the place in the cached dict where the scan of line 127 breaks, 0 if it
\* runs to the end
FirstMatch(od, current_invites) ==
    LET M == {i \in 1..Len(od) : Matches(od[i], current_invites)}
    IN IF M = {} THEN 0 ELSE CHOOSE i \in M : \A j \in M : i <= j

\* the diff crediting once per use the invite gained instead of once
RECURSIVE RecordTimes(_, _, _, _, _)
RecordTimes(d, g, inviter_id, day, n) ==
    IF n <= 0 THEN d
    ELSE RecordTimes(record_invite_use(d, g, inviter_id, day, 0), g, inviter_id, day, n - 1)
JoinDiff_per_use(cache, d, g, current_invites, day, F) ==
    LET i == IF g \in DOMAIN cache THEN FirstMatch(cache[g], current_invites) ELSE 0
    IN IF i = 0 THEN [cache |-> cache, db |-> d, credited |-> 0, code |-> ""]
       ELSE LET old_invite == cache[g][i]
                inviter_id == old_invite.inviter
            IN IF old_invite.code \in OdCodes(current_invites)
               THEN LET current_invite == OdGet(current_invites, old_invite.code)
                        d1 == IF inviter_id # 0
                              THEN RecordTimes(d, g, inviter_id, day,
                                               current_invite.uses - old_invite.uses)
                              ELSE d
                    IN [cache |-> [cache EXCEPT ![g][i] = current_invite],
                        db |-> update_invite_usage(d1, old_invite.code, current_invite.uses, 0),
                        credited |-> inviter_id, code |-> old_invite.code]
               ELSE [cache |-> [cache EXCEPT ![g] = OdDel(@, old_invite.code)],
                     db |-> IF inviter_id # 0 THEN record_invite_use(d, g, inviter_id, day, 0) ELSE d,
                     credited |-> inviter_id, code |-> old_invite.code]

\* the diff without the "if inviter_id:" of lines 136 and 149: the use is
\* recorded for user id 0
JoinDiff_record_zero(cache, d, g, current_invites, day, F) ==
    LET i == IF g \in DOMAIN cache THEN FirstMatch(cache[g], current_invites) ELSE 0
    IN IF i = 0 THEN [cache |-> cache, db |-> d, credited |-> 0, code |-> ""]
       ELSE LET old_invite == cache[g][i]
                inviter_id == old_invite.inviter
                d1 == record_invite_use(d, g, inviter_id, day,
                          FailAt(F, "record_invite_use", "", inviter_id, 4))
            IN IF old_invite.code \in OdCodes(current_invites)
               THEN LET current_invite == OdGet(current_invites, old_invite.code)
                    IN [cache |-> [cache EXCEPT ![g][i] = current_invite],
                        db |-> update_invite_usage(d1, old_invite.code, current_invite.uses,
                                   FailAt(F, "update_invite_usage", old_invite.code, 0, 1)),
                        credited |-> inviter_id, code |-> old_invite.code]
               ELSE [cache |-> [cache EXCEPT ![g] = OdDel(@, old_invite.code)],
                     db |-> d1,
                     credited |-> inviter_id, code |-> old_invite.code]

\* the diff taking an uncached guild for one whose fetched invites were all
\* cached with no use yet
JoinDiff_assume_unused(cache, d, g, current_invites, day, F) ==
    LET c0 == IF g \in DOMAIN cache THEN cache
              ELSE Put(cache, g, [n \in 1..Len(current_invites) |->
                                     [current_invites[n] EXCEPT !.uses = 0]])
        i == FirstMatch(c0[g], current_invites)
    IN IF i = 0 THEN [cache |-> cache, db |-> d, credited |-> 0, code |-> ""]
       ELSE LET old_invite == c0[g][i]
                inviter_id == old_invite.inviter
                d1 == IF inviter_id # 0
                      THEN record_invite_use(d, g, inviter_id, day,
                               FailAt(F, "record_invite_use", "", inviter_id, 4))
                      ELSE d
            IN IF old_invite.code \in OdCodes(current_invites)
               THEN LET current_invite == OdGet(current_invites, old_invite.code)
                    IN [cache |-> [c0 EXCEPT ![g][i] = current_invite],
                        db |-> update_invite_usage(d1, old_invite.code, current_invite.uses,
                                   FailAt(F, "update_invite_usage", old_invite.code, 0, 1)),
                        credited |-> inviter_id, code |-> old_invite.code]
               ELSE [cache |-> [c0 EXCEPT ![g] = OdDel(@, old_invite.code)],
                     db |-> d1,
                     credited |-> inviter_id, code |-> old_invite.code]

\* on_member_join, lines 126-156: the diff of the cached dict against the
\* fresh list.  credited is the inviter record_invite_use was called for (0:
\* it was not called), code the invite the scan stopped at ("" if none).
JoinDiff(cache, d, g, current_invites, day, F) ==
    LET i == IF g \in DOMAIN cache THEN FirstMatch(cache[g], current_invites) ELSE 0
    IN IF i = 0 THEN [cache |-> cache, db |-> d, credited |-> 0, code |-> ""]
       ELSE LET old_invite == cache[g][i]
                inviter_id == old_invite.inviter
                d1 == IF inviter_id # 0
                      THEN record_invite_use(d, g, inviter_id, day,
                               FailAt(F, "record_invite_use", "", inviter_id, 4))
                      ELSE d
            IN IF old_invite.code \in OdCodes(current_invites)
               THEN LET current_invite == OdGet(current_invites, old_invite.code)
                    IN [cache |-> [cache EXCEPT ![g][i] = current_invite],
                        db |-> update_invite_usage(d1, old_invite.code, current_invite.uses,
                                   FailAt(F, "update_invite_usage", old_invite.code, 0, 1)),
                        credited |-> inviter_id, code |-> old_invite.code]
               ELSE [cache |-> [cache EXCEPT ![g] = OdDel(@, old_invite.code)],
                     db |-> d1,
                     credited |-> inviter_id, code |-> old_invite.code]

\* ------------------------------------------------------------------ state
VARIABLES
    platform,      \* the platform's invites: code -> [st, uses, inviter, max_uses]
    manage_guild,  \* guild.me.guild_permissions.manage_guild, per guild
    today,         \* datetime.now() as a calendar day
    invite_cache,  \* InviteTracker.invite_cache: guild -> ordered dict of Invite
    db,            \* the sqlite file of InviteDatabase
    db0,           \* history: the sqlite file when the bot started
    tasks,         \* the handlers suspended at "await guild.invites()" (a bag)
    served,        \* bot.guilds: the guilds whose events reach the bot
    faulty,        \* whether store calls may raise sqlite3.Error
    is_ready,      \* InviteBot._is_ready
    startup,       \* history: the guilds on_ready is through with
    calls,         \* history: record_invite_use calls per (user, guild)
    events,        \* history: the events so far
    degraded,      \* history: a fetch failed, the capability was missing or a store call raised
    last           \* history: the handler segment that ran last

vars == <<platform, manage_guild, today, invite_cache, db, db0, tasks, served, faulty,
          is_ready, startup,
          calls, events, degraded, last>>

\* the Invite object the platform hands out for a live code
Inv(c) == [code |-> c, guild |-> GuildOf(c), uses |-> platform[c].uses,
           inviter |-> platform[c].inviter, max_uses |-> platform[c].max_uses]

\* guild.invites(): the guild's live invites
Listing(g) ==
    LET live == SelectSeq(CodeOrder, LAMBDA c : GuildOf(c) = g /\ platform[c].st = "live")
    IN [i \in 1..Len(live) |-> Inv(live[i])]

\* a handler suspended at guild.invites(); kind is the await it sits at:
\*   join1     on_member_join, line 122
\*   join2     cache_invites line 22, called from on_member_join line 159
\*   refresh1  cache_invites line 22, called from bot.py (refresh_command,
\*             on_guild_join, on_ready) with update_invite_counts to follow
\*   refresh2  cache_invites line 22, called from update_invite_counts line 52
\*             of such a refresh
\*   delete2   cache_invites line 22, called from update_invite_counts line 52
\*             of on_invite_delete
\* dropped (history) is the single-use invite that the diff of this join took
\* out of the cache at line 155, "" if none.
Task(kind, g, dropped) ==
    [kind |-> kind, guild |-> g, status |-> "pending", invites |-> <<>>, dropped |-> dropped]
TaskSet == BagToSet(tasks)
Without(t) == tasks (-) SetToBag({t})
With(bag, t) == bag (+) SetToBag({t})

\* n events are taken while the behaviour has room for them
Event(n) == events + n <= MaxEvents /\ events' = events + n

\* the sets of store calls, among the calls S, that raise within one handler
\* segment which itself takes n events
RECURSIVE FaultsUpTo(_, _)
FaultsUpTo(S, k) ==
    IF k <= 0 THEN {{}}
    ELSE LET P == FaultsUpTo(S, k - 1)
         IN P \cup {F \cup {s} : F \in P, s \in S}
Faults(S, n) == IF faulty THEN FaultsUpTo(S, MaxEvents - events - n) ELSE {{}}
SitesOf(ops, codes, users) ==
    {s \in AllSites : s.op \in ops /\ (s.code \in codes \/ s.user \in users)}

\* cache_invites without the check of lines 18-20
CallCacheInvites_nocheck(bag, g, kind, dropped) ==
    With(bag, Task(kind, g, dropped))

\* cache_invites, lines 18-22: the capability check, then the fetch at which
\* the handler is suspended as a task of this kind
CallCacheInvites(bag, g, kind, dropped) ==
    IF manage_guild[g] THEN With(bag, Task(kind, g, dropped)) ELSE bag

\* what the last handler segment did, for the segments the properties below
\* are about; Idle after any other step
Seg(op, code, credited, delta) ==
    [op |-> op, code |-> code, credited |-> credited, delta |-> delta]
Idle == Seg("", "", 0, 0)

\* ---------------------------------------------------------- except clauses
\* The exceptions raised here: discord.Forbidden is a discord.HTTPException,
\* and all three are Exceptions.
IsA(exc, cls) ==
    \/ cls = exc
    \/ cls = "Exception"
    \/ exc = "Forbidden" /\ cls = "HTTPException"
\* every except clause narrowed to discord.Forbidden
ExceptClauses_forbidden_only(h) == {"Forbidden"}
\* the classes named by the except clauses of a handler of InviteTracker, and
\* of the methods of Database
ExceptClauses(h) ==
    IF h \in {"cache_invites", "on_member_join"} THEN {"Forbidden", "Exception"}
    ELSE IF h = "Database" THEN {"sqlite3.Error"}
    ELSE {"Exception"}
Catches(h, exc) == \E cls \in ExceptClauses(h) : IsA(exc, cls)
\* how handler h ends when its guild.invites() raises exc
Ended(h, exc) == IF Catches(h, exc) THEN h \o "_failed" ELSE h \o "_raised"
\* what a segment of handler h reports when the store calls at F raise
\* sqlite3.Error: the method of Database catches it and h goes on
After(h, F, seg) ==
    IF F # {} /\ ~Catches("Database", "sqlite3.Error") /\ ~Catches(h, "sqlite3.Error")
    THEN Seg(h \o "_raised", "", 0, 0)
    ELSE seg

ZeroCalls == [k \in Users \X Guilds |-> 0]
Bump(f, k) == [f EXCEPT ![k] = @ + 1]

InitWith(f) ==
    /\ platform = [c \in Codes |-> [st |-> "unused", uses |-> 0, inviter |-> NoInviter, max_uses |-> 0]]
    /\ manage_guild = [g \in Guilds |-> TRUE]
    /\ today = 0
    /\ invite_cache = <<>>
    /\ db0 \in InitStores
    /\ db = db0
    /\ tasks = EmptyBag
    /\ served = {"g1"}
    /\ faulty = f
    /\ is_ready = FALSE
    /\ startup = {}
    /\ calls = ZeroCalls
    /\ events = 0
    /\ degraded = FALSE
    /\ last = Idle

\* the bot right after InviteBot.__init__, on a store that works
Init == InitWith(FALSE)

\* ---------------------------------------------------------------- actions
\* A member of the guild creates invite c; the platform sends InviteCreated and
\* bot.on_invite_create runs InviteTracker.on_invite_create to its end.
InviteCreated(c, who, mu) ==
    /\ GuildOf(c) \in served
    /\ platform[c].st = "unused"
    /\ platform' = [platform EXCEPT ![c] = [st |-> "live", uses |-> 0, inviter |-> who, max_uses |-> mu]]
    /\ \E F \in Faults(SitesOf({"add_invite", "update_invite_count"}, {c}, Users), 1) :
          LET invite == [code |-> c, guild |-> GuildOf(c), uses |-> 0, inviter |-> who, max_uses |-> mu]
              r == on_invite_create(invite_cache, db, invite, F)
          IN /\ Event(1 + Cardinality(F))
             /\ invite_cache' = r.cache
             /\ db' = r.db
             /\ degraded' = (degraded \/ F # {})
             /\ last' = After("on_invite_create", F, Idle)
    /\ UNCHANGED <<manage_guild, today, tasks, served, faulty, db0, is_ready, startup, calls>>

\* Invite c is revoked; the platform sends InviteDeleted and
\* InviteTracker.on_invite_delete runs, to its end or to the fetch of the
\* cache_invites that update_invite_counts calls for an uncached guild.
InviteDeleted(c) ==
    /\ GuildOf(c) \in served
    /\ platform[c].st = "live"
    /\ platform' = [platform EXCEPT ![c].st = "gone"]
    /\ \E F \in Faults(SitesOf({"remove_invite", "update_invite_count"}, {c}, Users), 1) :
          LET g == GuildOf(c)
              r == on_invite_delete(invite_cache, db, Inv(c), F)
          IN /\ Event(1 + Cardinality(F))
             /\ invite_cache' = r.cache
             /\ db' = r.db
             /\ tasks' = IF r.fetch THEN CallCacheInvites(tasks, g, "delete2", "") ELSE tasks
             /\ degraded' = (degraded \/ F # {} \/ (r.fetch /\ ~manage_guild[g]))
             /\ last' = After("on_invite_delete", F, Idle)
    /\ UNCHANGED <<manage_guild, today, served, faulty, db0, is_ready, startup, calls>>

\* on_member_join without the check of lines 117-119
MemberJoined_nocheck(c) ==
    /\ Event(1)
    /\ GuildOf(c) \in served
    /\ platform[c].st = "live"
    /\ platform' = [platform EXCEPT ![c].uses = @ + 1,
                                    ![c].st = IF platform[c].max_uses = 1 THEN "gone" ELSE "live"]
    /\ tasks' = With(tasks, Task("join1", GuildOf(c), ""))
    /\ last' = IF manage_guild[GuildOf(c)] THEN Idle ELSE Seg("on_member_join_nocap", "", 0, 0)
    /\ UNCHANGED <<manage_guild, today, invite_cache, db, served, faulty, db0, is_ready, startup, calls, degraded>>

\* A member joins through the live invite c (a single-use invite is gone with
\* its first use); the platform sends MemberJoined and on_member_join runs its
\* capability check and calls guild.invites(), lines 115-122.
MemberJoined(c) ==
    /\ Event(1)
    /\ GuildOf(c) \in served
    /\ platform[c].st = "live"
    /\ platform' = [platform EXCEPT ![c].uses = @ + 1,
                                    ![c].st = IF platform[c].max_uses = 1 THEN "gone" ELSE "live"]
    /\ IF manage_guild[GuildOf(c)]
       THEN /\ tasks' = With(tasks, Task("join1", GuildOf(c), ""))
            /\ last' = Idle
            /\ UNCHANGED degraded
       ELSE /\ tasks' = tasks
            /\ last' = Seg("on_member_join_nocap", "", 0, 0)
            /\ degraded' = TRUE
    /\ UNCHANGED <<manage_guild, today, invite_cache, db, served, faulty, db0, is_ready, startup, calls>>

\* bot.py: refresh_command (lines 185-186), on_guild_join (75-76) and on_ready
\* (60-61) call cache_invites and then update_invite_counts.  Without the
\* capability cache_invites returns at once and update_invite_counts runs.
Refresh(g) ==
    /\ g \in served
    /\ tasks' = CallCacheInvites(tasks, g, "refresh1", "")
    /\ IF manage_guild[g]
       THEN /\ Event(1)
            /\ last' = Idle
            /\ UNCHANGED <<db, degraded>>
       ELSE /\ IF g \in DOMAIN invite_cache
               THEN \E F \in Faults(SitesOf({"update_invite_count"}, {}, Users), 1) :
                       /\ Event(1 + Cardinality(F))
                       /\ db' = UpdateCountsBody(invite_cache, db, g, F)
                       /\ last' = After("update_invite_counts", F, Seg("cache_invites_nocap", "", 0, 0))
               ELSE /\ Event(1)
                    /\ db' = db
                    /\ last' = Seg("cache_invites_nocap", "", 0, 0)
            /\ degraded' = TRUE
    /\ UNCHANGED <<platform, manage_guild, today, invite_cache, served, faulty, db0, is_ready, startup, calls>>

\* The platform answers a pending guild.invites(): the live list, or Forbidden
\* when the bot lacks the capability.
Respond(t) ==
    /\ t \in TaskSet
    /\ t.status = "pending"
    /\ LET r == IF manage_guild[t.guild]
                THEN [t EXCEPT !.status = "ok", !.invites = Listing(t.guild)]
                ELSE [t EXCEPT !.status = "Forbidden"]
       IN /\ tasks' = With(Without(t), r)
          /\ degraded' = (degraded \/ r.status # "ok")
    /\ last' = Idle
    /\ UNCHANGED <<platform, manage_guild, today, invite_cache, db, served, faulty, db0, is_ready, startup, calls, events>>

\* A pending guild.invites() fails for another reason (the platform is
\* unavailable, the request times out): discord.HTTPException.
FetchFails(t) ==
    /\ Event(1)
    /\ t \in TaskSet
    /\ t.status = "pending"
    /\ tasks' = With(Without(t), [t EXCEPT !.status = "HTTPException"])
    /\ degraded' = TRUE
    /\ last' = Idle
    /\ UNCHANGED <<platform, manage_guild, today, invite_cache, db, served, faulty, db0, is_ready, startup, calls>>

\* on_member_join whose diff takes an uncached guild for one whose fetched
\* invites were all cached with no use yet
ResumeJoin_assume_unused(t) ==
    /\ t \in TaskSet
    /\ t.kind = "join1"
    /\ t.status # "pending"
    /\ IF t.status # "ok"
       THEN /\ tasks' = Without(t)
            /\ last' = Seg(Ended("on_member_join", t.status), "", 0, 0)
            /\ UNCHANGED <<invite_cache, db, calls, degraded, events>>
       ELSE LET g == t.guild
                r == JoinDiff_assume_unused(invite_cache, db, g, t.invites, today, {})
                dropped == IF r.code # "" /\ r.code \notin OdCodes(t.invites) THEN r.code ELSE ""
            IN /\ invite_cache' = r.cache
               /\ db' = r.db
               /\ calls' = IF r.credited # 0 THEN Bump(calls, <<r.credited, g>>) ELSE calls
               /\ tasks' = CallCacheInvites(Without(t), g, "join2", dropped)
               /\ degraded' = (degraded \/ ~manage_guild[g])
               /\ last' = Seg("on_member_join_diff", r.code, r.credited, 1)
               /\ UNCHANGED events
    /\ UNCHANGED <<platform, manage_guild, today, served, faulty, db0, is_ready, startup>>

\* on_member_join resumes after the fetch of line 122.  A failed fetch goes to
\* the except clauses of lines 161-164.  Otherwise lines 123-159 run: the diff,
\* then cache_invites up to its fetch.
ResumeJoin(t) ==
    /\ t \in TaskSet
    /\ t.kind = "join1"
    /\ t.status # "pending"
    /\ IF t.status # "ok"
       THEN /\ tasks' = Without(t)
            /\ last' = Seg(Ended("on_member_join", t.status), "", 0, 0)
            /\ UNCHANGED <<invite_cache, db, calls, degraded, events>>
       ELSE \E F \in Faults(SitesOf({"record_invite_use", "update_invite_usage"}, Codes, Users), 0) :
               LET g == t.guild
                   r == JoinDiff(invite_cache, db, g, t.invites, today, F)
                   found == r.code \in OdCodes(t.invites)
                   delta == IF found
                            THEN OdGet(t.invites, r.code).uses - OdGet(invite_cache[g], r.code).uses
                            ELSE 0
                   dropped == IF r.code # "" /\ ~found THEN r.code ELSE ""
               IN /\ Event(Cardinality(F))
                  /\ invite_cache' = r.cache
                  /\ db' = r.db
                  /\ calls' = IF r.credited # 0 THEN Bump(calls, <<r.credited, g>>) ELSE calls
                  /\ tasks' = CallCacheInvites(Without(t), g, "join2", dropped)
                  /\ degraded' = (degraded \/ F # {} \/ ~manage_guild[g])
                  /\ last' = After("on_member_join", F,
                                   Seg("on_member_join_diff", r.code, r.credited, delta))
    /\ UNCHANGED <<platform, manage_guild, today, served, faulty, db0, is_ready, startup>>

\* cache_invites with the reset of line 23 moved before the fetch of line 22
ResumeCache_reset_first(t) ==
    /\ t \in TaskSet
    /\ t.kind \in {"join2", "refresh2", "delete2"}
    /\ t.status # "pending"
    /\ tasks' = Without(t)
    /\ IF t.status # "ok"
       THEN /\ last' = Seg(Ended("cache_invites", t.status), "", 0, 0)
            /\ invite_cache' = Put(invite_cache, t.guild, <<>>)
            /\ UNCHANGED <<db, degraded, events>>
       ELSE LET r == CacheInvitesBody(invite_cache, db, t.guild, t.invites, {})
            IN /\ invite_cache' = r.cache
               /\ db' = r.db
               /\ last' = Idle
               /\ UNCHANGED <<degraded, events>>
    /\ UNCHANGED <<platform, manage_guild, today, served, faulty, db0, is_ready, startup, calls>>

\* cache_invites dropping the guild's entry when its fetch fails
ResumeCache_forget(t) ==
    /\ t \in TaskSet
    /\ t.kind \in {"join2", "refresh2", "delete2"}
    /\ t.status # "pending"
    /\ tasks' = Without(t)
    /\ IF t.status # "ok"
       THEN /\ last' = Seg(Ended("cache_invites", t.status), "", 0, 0)
            /\ invite_cache' = [g \in DOMAIN invite_cache \ {t.guild} |-> invite_cache[g]]
            /\ UNCHANGED <<db, degraded, events>>
       ELSE LET r == CacheInvitesBody(invite_cache, db, t.guild, t.invites, {})
            IN /\ invite_cache' = r.cache
               /\ db' = r.db
               /\ last' = Idle
               /\ UNCHANGED <<degraded, events>>
    /\ UNCHANGED <<platform, manage_guild, today, served, faulty, db0, is_ready, startup, calls>>

\* cache_invites resumes after its fetch (line 22) with nothing to follow in
\* its caller: the except clauses of lines 43-46, or lines 23-41.
ResumeCache(t) ==
    /\ t \in TaskSet
    /\ t.kind \in {"join2", "refresh2", "delete2"}
    /\ t.status # "pending"
    /\ tasks' = Without(t)
    /\ IF t.status # "ok"
       THEN /\ last' = Seg(Ended("cache_invites", t.status), "", 0, 0)
            /\ UNCHANGED <<invite_cache, db, degraded, events>>
       ELSE \E F \in Faults(SitesOf({"add_invite", "update_invite_usage"}, OdCodes(t.invites), {}), 0) :
               LET r == CacheInvitesBody(invite_cache, db, t.guild, t.invites, F)
               IN /\ Event(Cardinality(F))
                  /\ invite_cache' = r.cache
                  /\ db' = r.db
                  /\ degraded' = (degraded \/ F # {})
                  /\ last' = After("cache_invites", F, Idle)
    /\ UNCHANGED <<platform, manage_guild, today, served, faulty, db0, is_ready, startup, calls>>

\* cache_invites called from bot.py resumes after its fetch, and
\* update_invite_counts (lines 51-62) follows: it counts when the guild is
\* cached and calls cache_invites once more when it is not.
ResumeRefresh(t) ==
    /\ t \in TaskSet
    /\ t.kind = "refresh1"
    /\ t.status # "pending"
    /\ LET g == t.guild
       IN IF t.status = "ok"
          THEN \E F \in Faults(SitesOf({"add_invite", "update_invite_usage", "update_invite_count"},
                                       OdCodes(t.invites), Users), 0) :
                  LET r == CacheInvitesBody(invite_cache, db, g, t.invites, F)
                  IN /\ Event(Cardinality(F))
                     /\ invite_cache' = r.cache
                     /\ db' = UpdateCountsBody(r.cache, r.db, g, F)
                     /\ tasks' = Without(t)
                     /\ degraded' = (degraded \/ F # {})
                     /\ last' = After("update_invite_counts", F, Idle)
          ELSE IF g \in DOMAIN invite_cache
          THEN \E F \in Faults(SitesOf({"update_invite_count"}, {}, Users), 0) :
                  /\ Event(Cardinality(F))
                  /\ db' = UpdateCountsBody(invite_cache, db, g, F)
                  /\ tasks' = Without(t)
                  /\ last' = After("update_invite_counts", F,
                                   Seg(Ended("cache_invites", t.status), "", 0, 0))
                  /\ UNCHANGED <<invite_cache, degraded>>
          ELSE /\ tasks' = CallCacheInvites(Without(t), g, "refresh2", "")
               /\ last' = Seg(Ended("cache_invites", t.status), "", 0, 0)
               /\ UNCHANGED <<invite_cache, db, degraded, events>>
    /\ UNCHANGED <<platform, manage_guild, today, served, faulty, db0, is_ready, startup, calls>>

\* The bot's role gains or loses "Manage Server" in guild g.
PermissionChange(g) ==
    /\ Event(1)
    /\ g \in served
    /\ manage_guild' = [manage_guild EXCEPT ![g] = ~@]
    /\ last' = Idle
    /\ UNCHANGED <<platform, today, invite_cache, db, tasks, served, faulty, db0, is_ready, startup, calls, degraded>>

\* datetime.now() passes midnight.
Midnight ==
    /\ Event(1)
    /\ today' = today + 1
    /\ last' = Idle
    /\ UNCHANGED <<platform, manage_guild, invite_cache, db, tasks, served, faulty, db0, is_ready, startup, calls, degraded>>

Next ==
    \/ \E c \in Codes : \E a \in InviteChoices(c) : InviteCreated(c, a[1], a[2])
    \/ \E c \in Codes : InviteDeleted(c)
    \/ \E c \in Codes : MemberJoined(c)
    \/ \E g \in Guilds : Refresh(g)
    \/ \E t \in TaskSet : Respond(t)
    \/ \E t \in TaskSet : FetchFails(t)
    \/ \E t \in TaskSet : ResumeJoin(t)
    \/ \E t \in TaskSet : ResumeCache(t)
    \/ \E t \in TaskSet : ResumeRefresh(t)
    \/ \E g \in Guilds : PermissionChange(g)
    \/ Midnight

\* the store works
Spec == Init /\ [][Next]_vars

\* store calls may raise sqlite3.Error
SpecFaulty == InitWith(TRUE) /\ [][Next]_vars

\* InviteTracker.get_invite_stats for user u of guild g, lines 166-172; the
\* read may raise inside get_user_stats, which then returns (0, 0).
GetInviteStats(g, u) ==
    /\ Event(1)
    /\ \E failAt \in (IF faulty THEN 0..1 ELSE {0}) :
          LET r == get_user_stats(db, g, u, failAt)
          IN last' = After("get_invite_stats", IF failAt = 0 THEN {} ELSE {Site("get_user_stats", "", u, 1)},
                           Seg(IF failAt = 0 THEN "get_invite_stats" ELSE "get_invite_stats_failed",
                               "", r[1], r[2]))
    /\ UNCHANGED <<platform, manage_guild, today, invite_cache, db, db0, tasks, served, faulty,
                   is_ready, startup, calls, degraded>>

HandlersNext ==
    \/ Next
    \/ \E g \in Guilds : \E u \in Users : GetInviteStats(g, u)

\* every handler of InviteTracker, store calls and fetches failing at will
SpecHandlers == InitWith(TRUE) /\ [][HandlersNext]_vars

\* ------------------------------------------------------- two guilds
\* The bot in two guilds, g2 cached and g1 not yet: g2's invite Z is in the
\* cache and in the store, user 1 has counters in g2, and g1 has the invite X
\* that user 1 made while the bot was away, the one event so far.  Only g1's
\* events are followed, so every handler that runs is a handler for g1.
OtherInvite == [code |-> "Z", guild |-> "g2", uses |-> 1, inviter |-> 1, max_uses |-> 0]
ServersDb ==
    [invites |-> Put(<<>>, "Z", [guild_id |-> "g2", inviter_id |-> 1, uses |-> 1,
                                 max_uses |-> 0, is_active |-> TRUE]),
     invite_stats |-> Put(<<>>, <<1, "g2">>, [total_invites |-> 3, total_uses |-> 1]),
     daily_stats |-> Put(<<>>, <<1, "g2", 0>>, 1)]
ServersInit ==
    /\ platform = [c \in Codes |-> IF c = "X"
                      THEN [st |-> "live", uses |-> 0, inviter |-> 1, max_uses |-> 0]
                      ELSE [st |-> "unused", uses |-> 0, inviter |-> NoInviter, max_uses |-> 0]]
    /\ manage_guild = [g \in Guilds |-> TRUE]
    /\ today = 0
    /\ invite_cache = Put(<<>>, "g2", <<OtherInvite>>)
    /\ db0 = ServersDb
    /\ db = db0
    /\ tasks = EmptyBag
    /\ served = {"g1"}
    /\ faulty = FALSE
    /\ is_ready = FALSE
    /\ startup = {}
    /\ calls = ZeroCalls
    /\ events = 1
    /\ degraded = FALSE
    /\ last = Idle

SpecServers == ServersInit /\ [][Next]_vars

\* ------------------------------------------------------------- startup
\* bot.py: on_ready caches guild after guild and then sets _is_ready, while
\* the daily_leaderboard loop may fire at any time.
\* self.guilds, in the order on_ready walks it
GuildOrder == <<"g1", "g2">>
GuildIndex(g) == CHOOSE i \in 1..Len(GuildOrder) : GuildOrder[i] = g

\* on_ready, lines 57-63, from guild number i on, up to the next fetch or to
\* line 63: cache_invites (line 60), then update_invite_counts (line 61).
\* done are the guilds the loop is through with.
RECURSIVE RunReady(_, _, _, _, _)
RunReady(cache, d, bag, i, done) ==
    IF i > Len(GuildOrder)
    THEN [db |-> d, tasks |-> bag, startup |-> done, finished |-> TRUE]
    ELSE LET g == GuildOrder[i]
         IN IF manage_guild[g]
            THEN [db |-> d, tasks |-> With(bag, Task("ready1", g, "")),
                  startup |-> done, finished |-> FALSE]
            ELSE RunReady(cache,
                          IF g \in DOMAIN cache THEN UpdateCountsBody(cache, d, g, {}) ELSE d,
                          bag, i + 1, done \cup {g})

\* on_ready after the cache_invites of line 60 has returned for guild number
\* i: update_invite_counts, which counts or, for a guild that is still
\* uncached, calls cache_invites once more
AfterCacheInvites(cache, d, bag, i, done) ==
    LET g == GuildOrder[i]
    IN IF g \in DOMAIN cache
       THEN RunReady(cache, UpdateCountsBody(cache, d, g, {}), bag, i + 1, done \cup {g})
       ELSE IF manage_guild[g]
       THEN [db |-> d, tasks |-> With(bag, Task("ready2", g, "")),
             startup |-> done, finished |-> FALSE]
       ELSE RunReady(cache, d, bag, i + 1, done \cup {g})

\* The gateway reports READY (at connect, and again after a reconnect) and
\* on_ready runs up to its first fetch.
OnReady ==
    /\ Event(1)
    /\ IF is_ready
       THEN /\ last' = Seg("on_ready_again", "", 0, 0)
            /\ UNCHANGED <<db, tasks, is_ready, startup>>
       ELSE LET r == RunReady(invite_cache, db, tasks, 1, startup)
            IN /\ db' = r.db
               /\ tasks' = r.tasks
               /\ startup' = r.startup
               /\ is_ready' = r.finished
               /\ last' = Idle
    /\ degraded' = (degraded \/ \E g \in Guilds : ~manage_guild[g])
    /\ UNCHANGED <<platform, manage_guild, today, invite_cache, db0, served, faulty, calls>>

\* on_ready resumes after a fetch of cache_invites, called from line 60
\* (ready1) or from update_invite_counts (ready2), and goes on with its loop.
ResumeReady(t) ==
    /\ t \in TaskSet
    /\ t.kind \in {"ready1", "ready2"}
    /\ t.status # "pending"
    /\ LET g == t.guild
           c == IF t.status = "ok"
                THEN CacheInvitesBody(invite_cache, db, g, t.invites, {})
                ELSE [cache |-> invite_cache, db |-> db]
           r == IF t.kind = "ready1"
                THEN AfterCacheInvites(c.cache, c.db, Without(t), GuildIndex(g), startup)
                ELSE RunReady(c.cache, c.db, Without(t), GuildIndex(g) + 1, startup \cup {g})
       IN /\ invite_cache' = c.cache
          /\ db' = r.db
          /\ tasks' = r.tasks
          /\ startup' = r.startup
          /\ is_ready' = (is_ready \/ r.finished)
          /\ last' = IF t.status = "ok" THEN Idle ELSE Seg(Ended("cache_invites", t.status), "", 0, 0)
    /\ UNCHANGED <<platform, manage_guild, today, db0, served, faulty, calls, degraded, events>>

\* daily_leaderboard without the check of lines 93-94
DailyLeaderboard_nocheck(configured) ==
    /\ Event(1)
    /\ last' = IF configured
               THEN Seg("daily_leaderboard_posted", "", 0, 0)
               ELSE Seg("daily_leaderboard_no_channel", "", 0, 0)
    /\ UNCHANGED <<platform, manage_guild, today, invite_cache, db, db0, tasks, served, faulty,
                   is_ready, startup, calls, degraded>>

\* The daily_leaderboard loop fires, lines 90-107.  With a channel configured
\* post_daily_leaderboard reads the store and sends; what it posts is
\* get_daily_leaderboard of the channel's guild.
DailyLeaderboard(configured) ==
    /\ Event(1)
    /\ last' = IF ~is_ready THEN Seg("daily_leaderboard_not_ready", "", 0, 0)
               ELSE IF configured
               THEN Seg("daily_leaderboard_posted", "", 0, 0)
               ELSE Seg("daily_leaderboard_no_channel", "", 0, 0)
    /\ UNCHANGED <<platform, manage_guild, today, invite_cache, db, db0, tasks, served, faulty,
                   is_ready, startup, calls, degraded>>

\* the bot connecting: invites made while it was offline are on the platform
StartupInit ==
    /\ platform \in [Codes -> {[st |-> "unused", uses |-> 0, inviter |-> NoInviter, max_uses |-> 0],
                               [st |-> "live", uses |-> 1, inviter |-> 1, max_uses |-> 0]}]
    /\ manage_guild \in [Guilds -> BOOLEAN]
    /\ today = 0
    /\ invite_cache = <<>>
    /\ db0 \in InitStores
    /\ db = db0
    /\ tasks = EmptyBag
    /\ served = Guilds
    /\ faulty = FALSE
    /\ is_ready = FALSE
    /\ startup = {}
    /\ calls = ZeroCalls
    /\ events = 0
    /\ degraded = FALSE
    /\ last = Idle

StartupNext ==
    \/ OnReady
    \/ \E t \in TaskSet : Respond(t)
    \/ \E t \in TaskSet : FetchFails(t)
    \/ \E t \in TaskSet : ResumeReady(t)
    \/ \E g \in Guilds : PermissionChange(g)
    \/ \E configured \in BOOLEAN : DailyLeaderboard(configured)

\* the bot from its connection on
SpecStartup == StartupInit /\ [][StartupNext]_vars

\* ------------------------------------------------- the store on its own
\* InviteDatabase called method by method, on a store drawn from the stores
\* below.  The day is StoreToday; daily rows lie 0, 7 or 8 days back.
StoreToday == 33
DayOffsets == {0, 7, 8}
InviteRows ==
    {[guild_id |-> "g1", inviter_id |-> 1, uses |-> 2, max_uses |-> 0, is_active |-> TRUE],
     [guild_id |-> "g1", inviter_id |-> 2, uses |-> 1, max_uses |-> 1, is_active |-> FALSE]}
InviteTables == UNION {[S -> InviteRows] : S \in SUBSET Codes}
\* what the store holds for one (user, guild): no row, or a row with its
\* total_invites and one use credited on each of the days
Profiles ==
    {[row |-> FALSE, ti |-> 0, days |-> {}]}
    \cup [row : {TRUE}, ti : {0, 1}, days : SUBSET DayOffsets]
StoreKeys == {<<1, "g1">>, <<2, "g1">>, <<1, "g2">>}
StoreOf(inv, choice) ==
    LET K == {k \in StoreKeys : choice[k].row}
    IN [invites |-> inv,
        invite_stats |-> [k \in K |-> [total_invites |-> choice[k].ti,
                                       total_uses |-> Cardinality(choice[k].days)]],
        daily_stats |-> [kd \in UNION {{<<k[1], k[2], StoreToday - o>> : o \in choice[k].days} : k \in K}
                            |-> 1]]
\* the stores drawn: every choice for the two users of g1, with or without
\* one row of another guild, over an empty invites table; and every invites
\* table over empty counters
OtherGuild(b) ==
    IF b THEN [row |-> TRUE, ti |-> 1, days |-> {0, 7}] ELSE [row |-> FALSE, ti |-> 0, days |-> {}]
StoreStates ==
    {StoreOf(<<>>, [k \in StoreKeys |-> IF k[2] = "g1" THEN choice[k[1]] ELSE OtherGuild(b)]) :
        choice \in [Users -> Profiles], b \in BOOLEAN}
    \cup {StoreOf(inv, [k \in StoreKeys |-> OtherGuild(FALSE)]) : inv \in InviteTables}

StoreInit ==
    /\ platform = [c \in Codes |-> [st |-> "unused", uses |-> 0, inviter |-> NoInviter, max_uses |-> 0]]
    /\ manage_guild = [g \in Guilds |-> TRUE]
    /\ today = StoreToday
    /\ invite_cache = <<>>
    /\ db0 \in StoreStates
    /\ db = db0
    /\ tasks = EmptyBag
    /\ served = {"g1"}
    /\ faulty = TRUE
    /\ is_ready = FALSE
    /\ startup = {}
    /\ calls = ZeroCalls
    /\ events = 0
    /\ degraded = FALSE
    /\ last = Idle

\* one more call of a store method
Call == events < MaxCalls /\ events' = events + 1
StoreFrame == UNCHANGED <<platform, manage_guild, today, invite_cache, db0, tasks, served,
                          faulty, is_ready, startup, calls, degraded>>

CallAddInvite(c, who, mu, failAt) ==
    /\ Call
    /\ db' = add_invite(db, c, GuildOf(c), who, mu, failAt)
    /\ last' = Seg(IF failAt = 0 THEN "add_invite" ELSE "add_invite_failed", c, who, mu)
    /\ StoreFrame

CallUpdateInviteUsage(c, n, failAt) ==
    /\ Call
    /\ db' = update_invite_usage(db, c, n, failAt)
    /\ last' = Seg(IF failAt = 0 THEN "update_invite_usage" ELSE "update_invite_usage_failed", c, 0, n)
    /\ StoreFrame

CallRemoveInvite(c, failAt) ==
    /\ Call
    /\ db' = remove_invite(db, c, failAt)
    /\ last' = Seg(IF failAt = 0 THEN "remove_invite" ELSE "remove_invite_failed", c, 0, 0)
    /\ StoreFrame

CallRecordInviteUse(k, failAt) ==
    /\ Call
    /\ db' = record_invite_use(db, k[2], k[1], today, failAt)
    /\ last' = Seg(IF failAt = 0 THEN "record_invite_use" ELSE "record_invite_use_failed", "", k[1], 0)
    /\ StoreFrame

CallUpdateInviteCount(k, n, failAt) ==
    /\ Call
    /\ db' = update_invite_count(db, k[2], k[1], n, failAt)
    /\ last' = Seg(IF failAt = 0 THEN "update_invite_count" ELSE "update_invite_count_failed", "", k[1], n)
    /\ StoreFrame

\* one of the three reads; what it returns is a function of db and today
CallRead(op, failAt) ==
    /\ Call
    /\ db' = db
    /\ last' = Seg(IF failAt = 0 THEN op ELSE op \o "_failed", "", 0, 0)
    /\ StoreFrame

Limits == 0..3
StoreNext ==
    \/ \E c \in Codes, f \in 0..1 : \E a \in InviteChoices(c) : CallAddInvite(c, a[1], a[2], f)
    \/ \E c \in Codes, n \in {0, 3}, f \in 0..1 : CallUpdateInviteUsage(c, n, f)
    \/ \E c \in Codes, f \in 0..1 : CallRemoveInvite(c, f)
    \/ \E k \in Users \X {"g1"}, f \in 0..4 : CallRecordInviteUse(k, f)
    \/ \E k \in StoreKeys, n \in {0, 2}, f \in 0..1 : CallUpdateInviteCount(k, n, f)
    \/ \E op \in {"get_leaderboard", "get_daily_leaderboard", "get_user_stats"}, f \in 0..1 :
          CallRead(op, f)

\* the store called method by method
SpecStore == StoreInit /\ [][StoreNext]_vars

\* ------------------------------------------------------------- properties
Keys == Users \X Guilds
TotalUsesOf(d, k) == IF k \in DOMAIN d.invite_stats THEN d.invite_stats[k].total_uses ELSE 0
DailyOf(d, k, day) ==
    IF <<k[1], k[2], day>> \in DOMAIN d.daily_stats THEN d.daily_stats[<<k[1], k[2], day>>] ELSE 0
DailySum(d, k) ==
    SumOver(d.daily_stats, {kd \in DOMAIN d.daily_stats : kd[1] = k[1] /\ kd[2] = k[2]})
\* the joins the platform counted through the invites of user u in guild g
JoinsVia(u, g) ==
    SumOver([c \in Codes |-> platform[c].uses],
            {c \in Codes : GuildOf(c) = g /\ platform[c].inviter = u})
\* no handler is suspended at a fetch
Quiescent == tasks = EmptyBag
\* every join so far went through an invite with a known inviter
InvitersKnown == \A c \in Codes : platform[c].inviter = NoInviter => platform[c].uses = 0

\* C1: whatever the interleaving of the join, create, delete and refresh
\* handlers, when every join went through a live invite with a known inviter
\* and nothing failed, a user's total_uses at quiescence has grown by exactly
\* the number of joins made through that user's invites.
C1_EveryJoinCountedOnce ==
    (Quiescent /\ InvitersKnown /\ ~degraded) =>
        \A k \in Keys : TotalUsesOf(db, k) = TotalUsesOf(db0, k) + JoinsVia(k[1], k[2])

\* C2: after N calls of record_invite_use for one (user, guild), in any
\* interleaving with calls for other users, total_uses is its initial value
\* plus N.
C2_NoLostUpdate ==
    \A k \in Keys : TotalUsesOf(db, k) = TotalUsesOf(db0, k) + calls[k]
\* two calls for one (user, guild)
C2_Witness ==
    \E k \in Keys : calls[k] >= 2 /\ TotalUsesOf(db, k) = TotalUsesOf(db0, k) + calls[k]

\* C3: in every reachable state of the store, record_invite_use calls that
\* raised part-way included, a (user, guild)'s total_uses equals the sum of
\* invites_used over its daily_stats rows.
C3_TotalIsSumOfDaily ==
    \A k \in Keys : TotalUsesOf(db, k) = DailySum(db, k)
\* a call of record_invite_use raised and another one committed
C3_Witness ==
    \E k \in Keys :
        /\ TotalUsesOf(db, k) < TotalUsesOf(db0, k) + calls[k]
        /\ TotalUsesOf(db, k) = DailySum(db, k)
        /\ TotalUsesOf(db, k) > TotalUsesOf(db0, k)

\* --- the diff of on_member_join, as the scenarios describe it
\* the cached list of guild g, empty when the guild is not cached
Prior(g) == IF g \in DOMAIN invite_cache THEN invite_cache[g] ELSE <<>>
Increased(old, fresh) ==
    \E j \in 1..Len(fresh) : fresh[j].code = old.code /\ fresh[j].uses > old.uses
MissingSingleUse(old, fresh) ==
    old.max_uses = 1 /\ \A j \in 1..Len(fresh) : fresh[j].code # old.code
Qualifies(old, fresh) == Increased(old, fresh) \/ MissingSingleUse(old, fresh)
NoEarlier(od, fresh, i) == \A j \in 1..(i - 1) : ~Qualifies(od[j], fresh)
\* this step runs lines 123-159 of the on_member_join suspended as t
JoinDiffStep(t) ==
    t.kind = "join1" /\ t.status = "ok" /\ CopiesIn(t, tasks') < CopiesIn(t, tasks)
\* this step ends the on_member_join whose resync is suspended as t
JoinEndStep(t) ==
    t.kind = "join2" /\ t.status # "pending" /\ CopiesIn(t, tasks') < CopiesIn(t, tasks)
\* in this step k is credited once, today, and nobody else's counter moves
CreditedOnce(k) ==
    /\ TotalUsesOf(db', k) = TotalUsesOf(db, k) + 1
    /\ DailyOf(db', k, today) = DailyOf(db, k, today) + 1
    /\ \A k2 \in Keys \ {k} : TotalUsesOf(db', k2) = TotalUsesOf(db, k2)
    /\ \A k2 \in Keys : \A day \in 0..MaxEvents :
           (k2 # k \/ day # today) => DailyOf(db', k2, day) = DailyOf(db, k2, day)
NoCredit ==
    /\ \A k \in Keys : TotalUsesOf(db', k) = TotalUsesOf(db, k)
    /\ db'.daily_stats = db.daily_stats

\* C4: scenario A.  When the diff of on_member_join finds cached invite X
\* (uses n, inviter U) in the fresh list with uses m > n, and no earlier cached
\* invite qualifies, U's total_uses and U's daily count of today go up by
\* exactly 1, whatever m - n is, and no other counter changes.
C4_ScenarioA ==
    [][\A t \in TaskSet : JoinDiffStep(t) =>
          \A i \in 1..Len(Prior(t.guild)) :
             LET old == Prior(t.guild)[i]
             IN (Increased(old, t.invites) /\ NoEarlier(Prior(t.guild), t.invites, i)
                    /\ old.inviter # NoInviter)
                => CreditedOnce(<<old.inviter, t.guild>>)]_vars
\* a diff that credited an invite whose uses had grown by 2 or more
C4_Witness ==
    last.op = "on_member_join_diff" /\ last.credited # NoInviter /\ last.delta >= 2

\* C5: scenario B.  When the diff finds the cached single-use invite Y
\* (inviter V) missing from the fresh list, and no earlier cached invite
\* qualifies, V is credited exactly once and Y is not in the guild's cache
\* when the handler finishes.
C5_ScenarioB ==
    [][\A t \in TaskSet :
          /\ JoinDiffStep(t) =>
                \A i \in 1..Len(Prior(t.guild)) :
                   LET old == Prior(t.guild)[i]
                   IN (MissingSingleUse(old, t.invites) /\ NoEarlier(Prior(t.guild), t.invites, i)
                          /\ old.inviter # NoInviter)
                      => /\ CreditedOnce(<<old.inviter, t.guild>>)
                         /\ old.code \notin OdCodes(invite_cache'[t.guild])
          /\ (JoinEndStep(t) /\ t.dropped # "") =>
                t.dropped \notin OdCodes(invite_cache'[t.guild])]_vars

\* C6: scenario C.  When no cached invite shows an increase in the fresh list
\* and no cached single-use invite is missing from it (other cached invites
\* may be missing), the diff changes no counter of invite_stats or daily_stats.
C6_ScenarioC ==
    [][\A t \in TaskSet : JoinDiffStep(t) =>
          ((\A i \in 1..Len(Prior(t.guild)) : ~Qualifies(Prior(t.guild)[i], t.invites))
           => /\ db'.invite_stats = db.invite_stats
              /\ db'.daily_stats = db.daily_stats)]_vars
\* a diff over a cache with invites that stopped at none of them
C6_Witness ==
    /\ last.op = "on_member_join_diff" /\ last.code = ""
    /\ \E g \in DOMAIN invite_cache : Len(invite_cache[g]) >= 1

\* the on_member_join suspended as t has its fresh list and has not finished
JoinInFlight(t) == (t.kind = "join1" /\ t.status = "ok") \/ t.kind = "join2"
\* this step is not a step of the handler suspended as t
NotStepOf(t) == CopiesIn(t, tasks') >= CopiesIn(t, tasks)
CacheOf(cache, g) == IF g \in DOMAIN cache THEN <<TRUE, cache[g]>> ELSE <<FALSE, <<>>>>

\* C7: the operations on one guild are serialized: between the fetch of an
\* on_member_join and the end of that handler no other handler writes the
\* guild's cache.
C7_Serialized ==
    [][\A t \in TaskSet : (JoinInFlight(t) /\ NotStepOf(t)) =>
          CacheOf(invite_cache', t.guild) = CacheOf(invite_cache, t.guild)]_vars

\* a join through invite c reaches the bot in this step
JoinEvent(c) == platform'[c].uses = platform[c].uses + 1
\* a fetch of kind kinds starts for guild g in this step
NewFetch(g, kinds) ==
    \E t \in BagToSet(tasks') :
        /\ t.guild = g /\ t.kind \in kinds /\ t.status = "pending"
        /\ CopiesIn(t, tasks') > CopiesIn(t, tasks)

\* C8: when on_member_join runs in a guild where the capability is missing,
\* the cache, the invites table, invite_stats and daily_stats stay as they
\* were and no fetch is made.
C8_JoinWithoutCapability ==
    [][\A c \in Codes : (JoinEvent(c) /\ ~manage_guild[GuildOf(c)]) =>
          /\ invite_cache' = invite_cache
          /\ db' = db
          /\ tasks' = tasks]_vars
\* such a join, in a guild with a cached invite and a row in the store
C8_Witness ==
    /\ last.op = "on_member_join_nocap"
    /\ \E g \in DOMAIN invite_cache : Len(invite_cache[g]) >= 1
    /\ db.invites # <<>>

CacheInvitesKinds == {"join2", "refresh1", "refresh2", "delete2"}

\* C9: when cache_invites runs for a guild where the capability is missing,
\* the refresh is skipped: no fetch is made, and the guild's cached map, present
\* or absent, and the store are left as they were (the update_invite_counts
\* that bot.py runs next may rewrite total_invites, nothing else).
C9_RefreshWithoutCapability ==
    [][\A g \in Guilds : ~manage_guild[g] =>
          /\ ~NewFetch(g, CacheInvitesKinds)
          /\ last'.op = "cache_invites_nocap" =>
                /\ invite_cache' = invite_cache
                /\ db'.invites = db.invites
                /\ NoCredit
                /\ g \notin DOMAIN invite_cache => db' = db]_vars
\* a refresh without the capability in a guild with a cached invite
C9_Witness ==
    /\ last.op = "cache_invites_nocap"
    /\ \E g \in DOMAIN invite_cache : ~manage_guild[g] /\ Len(invite_cache[g]) >= 1

\* this step resumes the handler suspended as t after its fetch failed
FailedResume(t) ==
    t.status \in {"Forbidden", "HTTPException"} /\ CopiesIn(t, tasks') < CopiesIn(t, tasks)

\* C10: when the listing fails, with Forbidden or any other error, in
\* cache_invites or in the first fetch of on_member_join, the cache keeps the
\* content it had, no credit is recorded and the handler goes on to its end
\* (after a refresh from bot.py, to update_invite_counts); an event that
\* comes later fetches again.
C10_FetchFailure ==
    [][/\ \A t \in TaskSet : FailedResume(t) =>
             /\ invite_cache' = invite_cache
             /\ db'.invites = db.invites
             /\ NoCredit
             /\ \/ tasks' = Without(t)
                \/ /\ t.kind = "refresh1" /\ t.guild \notin DOMAIN invite_cache
                   /\ tasks' = With(Without(t), Task("refresh2", t.guild, ""))
       /\ \A c \in Codes : (JoinEvent(c) /\ manage_guild[GuildOf(c)]) =>
             NewFetch(GuildOf(c), {"join1"})]_vars
\* a fetch of on_member_join failed over a cache with an invite whose uses are
\* behind the platform's
C10_Witness ==
    /\ last.op = "on_member_join_failed"
    /\ \E g \in DOMAIN invite_cache : \E i \in 1..Len(invite_cache[g]) :
          invite_cache[g][i].uses < platform[invite_cache[g][i].code].uses

\* --- the store methods on their own
InviteInputs == (Users \cup {NoInviter}) \X (0..1)
RowsOf(res) == {res[i] : i \in 1..Len(res)}

\* C11: add_invite on a code that has a row in the invites table leaves that
\* row's uses as it was; only the metadata is replaced.
C11_AddInviteKeepsUses ==
    \A c \in DOMAIN db.invites : \A a \in InviteInputs :
        add_invite(db, c, GuildOf(c), a[1], a[2], 0).invites[c].uses = db.invites[c].uses

\* C12: round trip.  For every code, inviter and max_uses, the invites row
\* read right after add_invite holds that inviter and max_uses under that
\* code, whether or not the code had a row before.
C12_AddInviteRoundTrip ==
    \A c \in Codes : \A a \in InviteInputs :
        LET d2 == add_invite(db, c, GuildOf(c), a[1], a[2], 0)
        IN /\ c \in DOMAIN d2.invites
           /\ d2.invites[c].inviter_id = a[1]
           /\ d2.invites[c].max_uses = a[2]
           /\ d2.invites[c].guild_id = GuildOf(c)
\* add_invite has run on a code whose row held another inviter
C12_Witness ==
    /\ last.op = "add_invite"
    /\ last.code \in DOMAIN db0.invites
    /\ db0.invites[last.code].inviter_id # last.credited
    /\ db.invites[last.code].inviter_id = last.credited
    /\ db.invites[last.code].max_uses = last.delta

\* C13: idempotence.  For every store and every code, with a row or without,
\* remove_invite called twice leaves the store that one call leaves.
C13_RemoveInviteIdempotent ==
    \A c \in Codes :
        remove_invite(remove_invite(db, c, 0), c, 0) = remove_invite(db, c, 0)
\* remove_invite has run on a code whose row was active
C13_Witness ==
    /\ last.op = "remove_invite"
    /\ last.code \in DOMAIN db0.invites
    /\ db0.invites[last.code].is_active
    /\ ~db.invites[last.code].is_active
    /\ remove_invite(db, last.code, 0) = db

\* C14: get_leaderboard(guild, limit) returns at most limit rows, each the
\* invite_stats row of one user of that guild, by total_uses descending and,
\* among equal total_uses, by total_invites descending; no row left out has a
\* strictly better (total_uses, total_invites) than a row returned.
C14_Leaderboard ==
    \A g \in Guilds : \A limit \in Limits : \A res \in get_leaderboard(db, g, limit, 0) :
        LET Of(g2) == {<<k[1], db.invite_stats[k].total_invites, db.invite_stats[k].total_uses>> :
                          k \in {x \in DOMAIN db.invite_stats : x[2] = g2}}
            Better(a, b) == a[3] > b[3] \/ (a[3] = b[3] /\ a[2] > b[2])
        IN /\ Len(res) <= limit
           /\ RowsOf(res) \subseteq Of(g)
           /\ \A i, j \in 1..Len(res) : i < j => (res[i][1] # res[j][1] /\ ~Better(res[j], res[i]))
           /\ \A r \in Of(g) \ RowsOf(res) :
                 /\ Len(res) = limit
                 /\ \A i \in 1..Len(res) : ~Better(r, res[i])
\* a read over a guild with two rows that tie on total_uses, and a row of
\* another guild
C14_Witness ==
    /\ last.op = "get_leaderboard"
    /\ <<1, "g2">> \in DOMAIN db.invite_stats
    /\ {<<1, "g1">>, <<2, "g1">>} \subseteq DOMAIN db.invite_stats
    /\ db.invite_stats[<<1, "g1">>].total_uses = db.invite_stats[<<2, "g1">>].total_uses
    /\ db.invite_stats[<<1, "g1">>].total_invites # db.invite_stats[<<2, "g1">>].total_invites

\* the daily rows of (u, g) dated within the 7 days up to today
InWindow(u, g) ==
    {k \in DOMAIN db.daily_stats : k[1] = u /\ k[2] = g /\ k[3] >= today - 7 /\ k[3] <= today}

\* C15: get_daily_leaderboard(guild, 7, limit) gives each user it returns the
\* sum of that user's daily_stats rows of the guild dated from today - 7 to
\* today: a row dated today - 7 counts, a row dated today - 8 or before never
\* does, and a user with no row in the window is not returned.
C15_DailyWindow ==
    \A g \in Guilds : \A limit \in Limits :
        \A res \in get_daily_leaderboard(db, g, 7, limit, today, 0) :
            /\ \A i \in 1..Len(res) :
                  /\ InWindow(res[i][1], g) # {}
                  /\ res[i][2] = SumOver(db.daily_stats, InWindow(res[i][1], g))
            /\ Len(res) < limit =>
                  \A u \in Users : InWindow(u, g) # {} => \E i \in 1..Len(res) : res[i][1] = u
\* a read over a store where one user has a row dated today - 7 and one dated
\* today - 8, and another has only a row dated today - 8
C15_Witness ==
    /\ last.op = "get_daily_leaderboard"
    /\ \E u, v \in Users :
          /\ u # v
          /\ {<<u, "g1", today - 7>>, <<u, "g1", today - 8>>} \subseteq DOMAIN db.daily_stats
          /\ <<v, "g1", today - 8>> \in DOMAIN db.daily_stats
          /\ InWindow(v, "g1") = {}

\* C16: get_user_stats(guild, user) returns (0, 0) when invite_stats has no
\* row for that (user, guild) and when the read fails; otherwise the row's
\* (total_invites, total_uses).
C16_UserStatsDefault ==
    \A k \in Keys : \A f \in 0..1 :
        get_user_stats(db, k[2], k[1], f) =
            IF f = 0 /\ k \in DOMAIN db.invite_stats
            THEN <<db.invite_stats[k].total_invites, db.invite_stats[k].total_uses>>
            ELSE <<0, 0>>
\* a failed read over a store where one user has a row with credits and the
\* other has none
C16_Witness ==
    /\ last.op = "get_user_stats_failed"
    /\ \E u, v \in Users :
          /\ <<u, "g1">> \in DOMAIN db.invite_stats
          /\ db.invite_stats[<<u, "g1">>].total_uses > 0
          /\ <<v, "g1">> \notin DOMAIN db.invite_stats

\* --- startup
\* C17: the daily leaderboard task never posts while startup caching is
\* incomplete: when it fires before on_ready is through with every guild and
\* has set the ready flag, it returns without reading the store or sending.
C17_NoPostBeforeReady ==
    last.op \in {"daily_leaderboard_posted", "daily_leaderboard_no_channel"} =>
        (is_ready /\ startup = served)
\* the task fired while on_ready was through with one guild and suspended at
\* the fetch for the other
C17_Witness ==
    /\ last.op = "daily_leaderboard_not_ready"
    /\ startup # {} /\ startup # served
    /\ \E t \in TaskSet : t.kind \in {"ready1", "ready2"}

\* --- failures
CoreHandlers == {"cache_invites", "update_invite_counts", "on_invite_create", "on_invite_delete",
                 "on_member_join", "get_invite_stats"}
\* C18: no handler of the core (cache_invites, update_invite_counts,
\* on_invite_create, on_invite_delete, on_member_join, get_invite_stats) lets
\* an error out: whatever the fetch answers (list, Forbidden, HTTPException) and
\* whichever store calls raise, the handler ends normally, and a store read
\* that raised returns a neutral result, the empty list or (0, 0).
C18_NoErrorPropagates ==
    /\ last.op \notin {h \o "_raised" : h \in CoreHandlers}
    /\ last.op = "get_invite_stats_failed" => (last.credited = 0 /\ last.delta = 0)
    /\ \A g \in Guilds :
          /\ \A u \in Users : get_user_stats(db, g, u, 1) = <<0, 0>>
          /\ \A n \in 0..2 : get_leaderboard(db, g, n, 1) = {<<>>}
          /\ \A n \in 0..2 : get_daily_leaderboard(db, g, 7, n, today, 1) = {<<>>}
\* a read that raised, for a user who has credits, after a record_invite_use
\* that raised inside on_member_join
C18_Witness ==
    /\ last.op = "get_invite_stats_failed"
    /\ \E k \in Keys :
          /\ TotalUsesOf(db, k) > 0
          /\ TotalUsesOf(db, k) < TotalUsesOf(db0, k) + calls[k]

\* --- total_invites
\* the invites of user u in the cached list of guild g
CachedInvitesOf(cache, g, u) ==
    Cardinality({i \in 1..Len(cache[g]) : cache[g][i].inviter = u})
TotalInvitesOf(d, k) == IF k \in DOMAIN d.invite_stats THEN d.invite_stats[k].total_invites ELSE 0
\* this step is on_invite_create or on_invite_delete for invite c, which end
\* with update_invite_counts
CreateOrDeleteStep(c) ==
    /\ platform'[c].st # platform[c].st
    /\ platform'[c].st \in {"live", "gone"}
    /\ platform'[c].uses = platform[c].uses

\* C19: after update_invite_counts has run on a cached guild, every user with
\* an invite_stats row in that guild has total_invites equal to the number of
\* that user's invites in the cache, a count that went down to 0 included.
C19_CountsFollowCache ==
    [][\A c \in Codes :
          (CreateOrDeleteStep(c) /\ GuildOf(c) \in DOMAIN invite_cache') =>
              \A u \in Users :
                  <<u, GuildOf(c)>> \in DOMAIN db'.invite_stats =>
                      db'.invite_stats[<<u, GuildOf(c)>>].total_invites
                          = CachedInvitesOf(invite_cache', GuildOf(c), u)]_vars

\* C20: when on_member_join has completed, with the capability and both
\* fetches answered, every user with invites in the resynchronized cache has a
\* stored total_invites equal to the number of those invites, also when the
\* set of invites changed since the counts were last updated.
C20_JoinRecounts ==
    [][\A t \in TaskSet :
          (JoinEndStep(t) /\ t.status = "ok") =>
              \A u \in Users :
                  CachedInvitesOf(invite_cache', t.guild, u) > 0 =>
                      TotalInvitesOf(db', <<u, t.guild>>)
                          = CachedInvitesOf(invite_cache', t.guild, u)]_vars

\* --- the end of on_member_join
CodeUses(od) == {<<od[i].code, od[i].uses>> : i \in 1..Len(od)}

\* C21: an on_member_join that had the capability and whose fetches were
\* answered ends with a full resynchronization, match or no match: when it
\* finishes, the guild's cache holds exactly the codes of the list fetched
\* last, each with the uses of that list.
C21_JoinEndsResynchronized ==
    [][\A t \in TaskSet :
          (JoinEndStep(t) /\ t.status = "ok") =>
              /\ t.guild \in DOMAIN invite_cache'
              /\ Len(invite_cache'[t.guild]) = Len(t.invites)
              /\ CodeUses(invite_cache'[t.guild]) = CodeUses(t.invites)]_vars
\* every on_member_join has finished, one of them credited a join, and the
\* cache holds an invite with the uses the platform counts
C21_Witness ==
    /\ Quiescent
    /\ \E k \in Keys : calls[k] >= 1
    /\ "g1" \in DOMAIN invite_cache
    /\ \E i \in 1..Len(invite_cache["g1"]) :
          /\ invite_cache["g1"][i].uses >= 1
          /\ invite_cache["g1"][i].uses = platform[invite_cache["g1"][i].code].uses

\* C22: when on_member_join attributes a join to a cached single-use invite
\* that is missing from the fresh list, the invite's row in the store is
\* inactive when the handler finishes, with no InviteDeleted event needed.
C22_ConsumedInviteInactive ==
    [][\A t \in TaskSet :
          (JoinEndStep(t) /\ t.status = "ok" /\ t.dropped # ""
              /\ platform[t.dropped].st = "gone" /\ platform[t.dropped].max_uses = 1
              /\ platform[t.dropped].uses = 1 /\ t.dropped \in DOMAIN db'.invites)
          => ~db'.invites[t.dropped].is_active]_vars

\* --- on_invite_delete
\* this step is the on_invite_delete for invite c, run to its end
DeleteStep(c) ==
    /\ platform[c].st = "live" /\ platform'[c].st = "gone"
    /\ platform'[c].uses = platform[c].uses
    /\ tasks' = tasks
\* the cached list od without code c, in the same order
Except(od, c) == SelectSeq(od, LAMBDA inv : inv.code # c)

\* C23: when on_invite_delete(X) has completed, X is not in its guild's cache,
\* X's row in the store, if there is one, is inactive, every other cached
\* invite of the guild is as it was, and the cache of no other guild has
\* changed; this holds whether X was in the cache before or not.
C23_DeleteFrame ==
    [][\A c \in Codes :
          DeleteStep(c) =>
              /\ DOMAIN invite_cache' = DOMAIN invite_cache
              /\ \A g \in DOMAIN invite_cache :
                    invite_cache'[g] = IF g = GuildOf(c) THEN Except(invite_cache[g], c)
                                       ELSE invite_cache[g]
              /\ c \in DOMAIN db'.invites => ~db'.invites[c].is_active
              /\ DOMAIN db'.invites = DOMAIN db.invites]_vars
\* a revoked invite, out of the cache and inactive in the store, next to a
\* cached invite of the same guild
C23_Witness ==
    \E c \in Codes :
        /\ platform[c].st = "gone" /\ platform[c].uses = 0
        /\ c \in DOMAIN db.invites /\ ~db.invites[c].is_active
        /\ "g1" \in DOMAIN invite_cache
        /\ c \notin OdCodes(invite_cache["g1"])
        /\ Len(invite_cache["g1"]) >= 1

\* --- one credit per join
\* what the counters of invite_stats gained in this step, over all users
CreditsGained(g) ==
    SumOver([u \in Users |-> TotalUsesOf(db', <<u, g>>) - TotalUsesOf(db, <<u, g>>)], Users)

\* C24: one execution of on_member_join applies at most one credit: when
\* several cached invites qualify (uses increased, or single-use and missing),
\* only the first in the cache's order is credited and the scan stops; the
\* later ones are not credited and their cache entries are not touched before
\* the final resynchronization.
C24_OneCreditPerJoin ==
    [][\A t \in TaskSet : JoinDiffStep(t) =>
          /\ CreditsGained(t.guild) \in 0..1
          /\ \A u \in Users : TotalUsesOf(db', <<u, t.guild>>) >= TotalUsesOf(db, <<u, t.guild>>)
          /\ \A i \in 1..Len(Prior(t.guild)) : \A j \in (i + 1)..Len(Prior(t.guild)) :
                LET first == Prior(t.guild)[i]
                    later == Prior(t.guild)[j]
                IN (Qualifies(first, t.invites) /\ NoEarlier(Prior(t.guild), t.invites, i)
                       /\ Qualifies(later, t.invites))
                   => /\ \E n \in 1..Len(invite_cache'[t.guild]) : invite_cache'[t.guild][n] = later
                      /\ later.inviter # first.inviter =>
                            TotalUsesOf(db', <<later.inviter, t.guild>>)
                                = TotalUsesOf(db, <<later.inviter, t.guild>>)]_vars
\* a diff that stopped at one invite and credited it, while another cached
\* invite is still behind what the platform counts
C24_Witness ==
    /\ last.op = "on_member_join_diff" /\ last.credited # NoInviter
    /\ \E i \in 1..Len(invite_cache["g1"]) :
          LET inv == invite_cache["g1"][i]
          IN inv.code # last.code /\ platform[inv.code].uses > inv.uses

\* C25: a join matched to a cached invite that has no inviter is credited to
\* nobody: no invite_stats or daily_stats row is created or changed, none for
\* user id 0 in particular; the scan stops at that invite all the same, and no
\* later cached invite is credited or touched for this join.
C25_NoInviterNoCredit ==
    [][\A t \in TaskSet : JoinDiffStep(t) =>
          \A i \in 1..Len(Prior(t.guild)) :
             LET old == Prior(t.guild)[i]
             IN (Qualifies(old, t.invites) /\ NoEarlier(Prior(t.guild), t.invites, i)
                    /\ old.inviter = NoInviter)
                => /\ db'.invite_stats = db.invite_stats
                   /\ db'.daily_stats = db.daily_stats
                   /\ \A k \in DOMAIN db'.invite_stats : k[1] # NoInviter
                   /\ \A k \in DOMAIN db'.daily_stats : k[1] # NoInviter
                   /\ \A j \in (i + 1)..Len(Prior(t.guild)) :
                         \E n \in 1..Len(invite_cache'[t.guild]) :
                            invite_cache'[t.guild][n] = Prior(t.guild)[j]]_vars
\* a diff that stopped at an invite without inviter and credited nobody, while
\* a cached invite of a known inviter is behind what the platform counts
C25_Witness ==
    /\ last.op = "on_member_join_diff" /\ last.code # "" /\ last.credited = NoInviter
    /\ platform[last.code].inviter = NoInviter
    /\ \E i \in 1..Len(invite_cache["g1"]) :
          LET inv == invite_cache["g1"][i]
          IN inv.inviter # NoInviter /\ platform[inv.code].uses > inv.uses

\* --- the state of a guild
\* C27: a guild only moves from UNCACHED to CACHED: once it has an entry in
\* invite_cache no event removes the entry, be it a create, a delete, a join,
\* a refresh, or a refresh that fails or is denied.
C27_CachedForGood ==
    [][\A g \in Guilds : g \in DOMAIN invite_cache => g \in DOMAIN invite_cache']_vars
\* a cached guild whose invites are all gone, right after a cache_invites
\* whose fetch failed
C27_Witness ==
    /\ last.op = "cache_invites_failed"
    /\ "g1" \in DOMAIN invite_cache /\ invite_cache["g1"] = <<>>
    /\ \E c \in Codes : platform[c].st = "gone"
    /\ ~manage_guild["g1"]

\* --- guilds side by side
\* what the tracker and the counters hold for guild g
CacheEntry(cache, g) == IF g \in DOMAIN cache THEN <<cache[g]>> ELSE <<>>
StatsOf(d, g) == [k \in {q \in DOMAIN d.invite_stats : q[2] = g} |-> d.invite_stats[k]]
DailyStatsOf(d, g) == [k \in {q \in DOMAIN d.daily_stats : q[2] = g} |-> d.daily_stats[k]]

\* C26: guilds are independent: a handler run for guild g1 (cache_invites,
\* update_invite_counts, on_invite_create, on_invite_delete, on_member_join)
\* leaves the cached map of guild g2 and every invite_stats and daily_stats
\* row of g2 as they were.
C26_GuildsIndependent ==
    [][/\ CacheEntry(invite_cache', "g2") = CacheEntry(invite_cache, "g2")
       /\ StatsOf(db', "g2") = StatsOf(db, "g2")
       /\ DailyStatsOf(db', "g2") = DailyStatsOf(db, "g2")]_vars
\* g1 has been cached and recounted and user 1, who has counters in both
\* guilds, was credited in g1; g2 is as it was
C26_Witness ==
    /\ "g1" \in DOMAIN invite_cache /\ Len(invite_cache["g1"]) >= 1
    /\ <<1, "g1">> \in DOMAIN db.invite_stats
    /\ db.invite_stats[<<1, "g1">>].total_invites >= 1
    /\ db.invite_stats[<<1, "g1">>].total_uses >= 1
    /\ CacheEntry(invite_cache, "g2") = <<(<<OtherInvite>>)>>
    /\ StatsOf(db, "g2") = StatsOf(db0, "g2")
    /\ StatsOf(db0, "g2") # <<>>

\* C28: an on_member_join whose diff finds the guild without a cache entry
\* credits nobody, and when its resynchronization, with the capability and the
\* fetch answered, completes on the still uncached guild, the guild is cached
\* with the fetched list.
C28_JoinOnUncached ==
    [][\A t \in TaskSet :
          /\ (JoinDiffStep(t) /\ t.guild \notin DOMAIN invite_cache) =>
                /\ NoCredit
                /\ db'.invite_stats = db.invite_stats
                /\ calls' = calls
          /\ (JoinEndStep(t) /\ t.status = "ok" /\ t.guild \notin DOMAIN invite_cache) =>
                /\ t.guild \in DOMAIN invite_cache'
                /\ invite_cache'[t.guild] = t.invites]_vars
\* X was made while the bot was away and one join is all that has happened
\* since: its handler has finished, g1 is cached with the invite at the uses
\* the platform counts, nobody is credited
C28_Witness ==
    /\ events = 2 /\ Quiescent
    /\ platform["X"].uses = 1
    /\ "g1" \in DOMAIN invite_cache
    /\ \E i \in 1..Len(invite_cache["g1"]) :
          invite_cache["g1"][i].code = "X" /\ invite_cache["g1"][i].uses = 1
    /\ \A k \in Keys : calls[k] = 0 /\ TotalUsesOf(db, k) = TotalUsesOf(db0, k)

====
